---- MODULE Spec2Model ----
(***************************************************************************)
(* Bayesian optimisation loop (notebooks/bo_experiment/run.py), the        *)
(* manifold acquisition optimiser (mdgp/bo_experiment/bo/bo.py), the       *)
(* BotorchGP wrapper (mdgp/experiments/bo_experiment/model/botorch.py)     *)
(* and the experiment status reader                                        *)
(* (mdgp/experiment_utils/reproducibility.py).                             *)
(*                                                                         *)
(* One behaviour is one call of main(dir_path, overwrite) on one config    *)
(* file: ExperimentConfigReader.__enter__, the body (run_experiment and    *)
(* run_bo, step by step), ExperimentConfigReader.__exit__.                 *)
(*                                                                         *)
(* Points of the manifold are represented by the order in which they were  *)
(* produced: the k-th observed point is the number k, so any two           *)
(* observations are at distinguishable points.  Objective values are       *)
(* small naturals; every objective evaluation may return any of them.      *)
(***************************************************************************)
EXTENDS Integers, Sequences, FiniteSets, TLC

(* ---- bounds of the model ---- *)
MaxIter == 2
MaxVal == 1
MaxInit == 2
MaxPost == 3
ReaderIters == 1
MaxCalls == 6
MaxPaths == 2
MaxTree == 3
MaxInducing == 2
MaxEvery == 2

Vals == 0..MaxVal

(* Optional integer: None is the empty sequence, an integer s is <<s>>. *)
None == <<>>
Some(v) == <<v>>

(* ExperimentStatus *)
READY == "ready"
RUNNING == "running"
FAILED == "failed"
COMPLETED == "completed"
ExperimentStatus == {READY, RUNNING, FAILED, COMPLETED}

(* Surrogate family labels: 'exact', 'deep', and "other" for any label   *)
(* that is neither (ModelArguments.model_name is a free string).           *)
Families == {"exact", "deep", "other"}

NoExc == "none"

VARIABLES
    disk,               \* the config file: [status, model_name]
    overwrite,          \* ExperimentConfigReader.overwrite
    bo_args,            \* the attributes read: [num_iter, switch_to_deep_iter, maximize, manifold_name, ...]
    fit_args,           \* [num_steps, partial_num_steps, full_every_n_steps]
    experiment_config,  \* the reader's object: [status, model_name]; model_name is model_args.model_name
    pc,                 \* position of the single thread of control
    exc,                \* the exception propagating, or NoExc
    moved,              \* __enter__ wrote RUNNING
    start_model_name,
    iteration,
    x, y,
    best_x, best_y,
    model,              \* the BotorchGP of this iteration
    acq_function,       \* what acqf_factory closed over
    batch_initial_conditions,  \* "none", "ok" or "nan"
    calls,              \* the posterior() calls of the running optimize_acqf_manifold: [phase, resample_weights]
    logged,             \* rows handed to log()
    trace,              \* per iteration started: what the loop did (observer)
    files,              \* the experiment tree: path -> [exists, status, content]
    creator,            \* create_experiment_config_from_json: [tree, cursor, overwrite]
    runners             \* concurrent runners on one config file: [pc, experiment_config, exc, ran]

vars == <<disk, overwrite, bo_args, fit_args, experiment_config, pc, exc, moved,
          start_model_name, iteration, x, y, best_x, best_y, model,
          acq_function, batch_initial_conditions, calls, logged, trace,
          files, creator, runners>>

config_vars == <<disk, overwrite, bo_args, fit_args>>
side_vars == <<files, creator, runners>>
data_vars == <<x, y, best_x, best_y>>

NoModel == [id |-> -1, family |-> "none", num_inducing |-> -1, fitted |-> FALSE,
            procedure |-> "none", num_steps |-> <<>>, resample_weights |-> FALSE]
DefaultFitArgs == [num_steps |-> 2, partial_num_steps |-> 1, full_every_n_steps |-> 1]
NoCreator == [tree |-> <<>>, cursor |-> 1, overwrite |-> FALSE]
NoAcqf == [built_in |-> -1, model |-> -1, best_f |-> -1]

(* ---- pure helpers ---- *)
Min(S) == CHOOSE v \in S : \A w \in S : v <= w
Range(s) == {s[i] : i \in DOMAIN s}

(* torch argmin: the index of the first minimal value *)
argmin(s) == CHOOSE i \in DOMAIN s : /\ s[i] = Min(Range(s))
                                     /\ \A j \in DOMAIN s : j < i => s[j] # s[i]

Last(s) == s[Len(s)]

(* ---- ExperimentConfigReader ---- *)

(* the overwrite flag is not read *)
EnterUpdatesAlways(status, ow) == status \in {READY, FAILED, COMPLETED}

(* __enter__'s condition for moving the status to RUNNING *)
EnterUpdates(status, ow) ==
    \/ status = READY
    \/ status = FAILED
    \/ (status = COMPLETED /\ ow)

(* the two outcomes exchanged *)
ExitStatusInverted(exc_type) == IF exc_type = NoExc THEN FAILED ELSE COMPLETED

(* __exit__'s new status *)
ExitStatus(exc_type) == IF exc_type = NoExc THEN COMPLETED ELSE FAILED

(* the guard of main's body: the status is RUNNING (run_experiments.py;   *)
(* run.py reads the same condition through experiment_config.can_run)      *)
can_run(cfg) == cfg.status = RUNNING

(* main: with ExperimentConfigReader(...) as experiment_config; __enter__ *)
Enter ==
    /\ pc = "main"
    /\ LET read == disk IN
       IF EnterUpdates(read.status, overwrite)
       THEN /\ experiment_config' = [read EXCEPT !.status = RUNNING]
            /\ disk' = [read EXCEPT !.status = RUNNING]
            /\ moved' = TRUE
       ELSE /\ experiment_config' = read
            /\ UNCHANGED <<disk, moved>>
    /\ pc' = "body"
    /\ UNCHANGED <<side_vars, overwrite, bo_args, fit_args, exc, start_model_name, iteration, data_vars,
                   model, acq_function, batch_initial_conditions, calls, logged, trace>>

(* main's else branch: the experiment is skipped *)
Skip ==
    /\ pc = "body"
    /\ ~can_run(experiment_config)
    /\ pc' = "exit"
    /\ UNCHANGED <<side_vars, config_vars, experiment_config, exc, moved, start_model_name, iteration,
                   data_vars, model, acq_function, batch_initial_conditions, calls, logged, trace>>

(* __exit__ writes only when this reader's __enter__ wrote RUNNING *)
ExitOnlyIfMoved ==
    /\ pc = "exit"
    /\ IF experiment_config.status = RUNNING /\ moved
       THEN /\ experiment_config' = [experiment_config EXCEPT !.status = ExitStatus(exc)]
            /\ disk' = experiment_config'
       ELSE UNCHANGED <<experiment_config, disk>>
    /\ pc' = "done"
    /\ UNCHANGED <<side_vars, overwrite, bo_args, fit_args, exc, moved, start_model_name, iteration, data_vars,
                   model, acq_function, batch_initial_conditions, calls, logged, trace>>

(* __exit__; the exception, if any, keeps propagating (nothing is returned) *)
Exit ==
    /\ pc = "exit"
    /\ IF experiment_config.status = RUNNING
       THEN /\ experiment_config' = [experiment_config EXCEPT !.status = ExitStatus(exc)]
            /\ disk' = experiment_config'
       ELSE UNCHANGED <<experiment_config, disk>>
    /\ pc' = "done"
    /\ UNCHANGED <<side_vars, overwrite, bo_args, fit_args, exc, moved, start_model_name, iteration, data_vars,
                   model, acq_function, batch_initial_conditions, calls, logged, trace>>

(* ---- run_bo ---- *)

(* the schedule with the comparison off by one *)
SwitchedModelNameInclusive(it, switch_to_deep_iter, start, name) ==
    IF switch_to_deep_iter # None /\ it <= switch_to_deep_iter[1] THEN "exact"
    ELSE IF start = "deep" THEN "deep"
    ELSE name

(* the schedule consulted only while the best value is still positive *)
SwitchedModelNameByValue(it, switch_to_deep_iter, start, name) ==
    IF switch_to_deep_iter # None /\ it < switch_to_deep_iter[1] /\ best_y > 0 THEN "exact"
    ELSE IF start = "deep" THEN "deep"
    ELSE name

(* the schedule with the comparison reversed *)
SwitchedModelNameReversed(it, switch_to_deep_iter, start, name) ==
    IF switch_to_deep_iter # None /\ it >= switch_to_deep_iter[1] THEN "exact"
    ELSE IF start = "deep" THEN "deep"
    ELSE name

(* lines 32-39: the label model_args.model_name has after the schedule    *)
(* branches, given the label it had on entry to the iteration              *)
SwitchedModelName(it, switch_to_deep_iter, start, name) ==
    IF switch_to_deep_iter # None /\ it < switch_to_deep_iter[1] THEN "exact"
    ELSE IF start = "deep" THEN "deep"
    ELSE name

(* a tie replaces the best *)
ImprovesOrTies(new_y, best) == new_y <= best

(* line 83: whether the new observation replaces the best one *)
Improves(new_y, best) == new_y < best

(* the full fit every n-th iteration counted from the first deep one *)
FitNumStepsSinceDeep(it, args) ==
    LET first == IF bo_args.switch_to_deep_iter = <<>> THEN 0 ELSE bo_args.switch_to_deep_iter[1] IN
    IF (it - first) % args.full_every_n_steps = 0 THEN args.num_steps ELSE args.partial_num_steps

(* line 57: the step count of a deep fit *)
FitNumSteps(it, args) ==
    IF it % args.full_every_n_steps = 0 THEN args.num_steps ELSE args.partial_num_steps

(* lines 54-59: the fitting procedure of a family; "none" when the label  *)
(* is unknown (line 61 raises)                                             *)
FitProcedure(name, it) ==
    IF name = "exact" THEN "fit_gpytorch_mll"
    ELSE IF name = "deep" THEN "fit"
    ELSE "none"

(* the exception is caught in the loop body and the loop goes on *)
RaiseSwallowed(e) ==
    /\ exc' = e
    /\ pc' = "log"

(* an exception leaves run_bo, run_experiment and the with block *)
Raise(e) ==
    /\ exc' = e
    /\ pc' = "exit"

(* one index too many *)
LoopContinuesInclusive(it, num_iter) == it <= num_iter

(* range(bo_args.num_iter) has another index *)
LoopContinues(it, num_iter) == it < num_iter

(* main's if branch up to the loop: run_experiment, run_bo lines 23-28 *)
RunBoStart ==
    /\ pc = "body"
    /\ can_run(experiment_config)
    /\ \E n \in 1..MaxInit : \E y0 \in [1..n -> Vals] :
          /\ x' = [k \in 1..n |-> k]
          /\ y' = y0
          /\ best_x' = x'[argmin(y0)]
          /\ best_y' = Min(Range(y0))
    /\ start_model_name' = experiment_config.model_name
    /\ iteration' = 0
    /\ pc' = "loop"
    /\ UNCHANGED <<side_vars, config_vars, experiment_config, exc, moved, model, acq_function,
                   batch_initial_conditions, calls, logged, trace>>

(* lines 31-39: the next index of the range, and the schedule *)
SwitchModel ==
    /\ pc = "loop"
    /\ LoopContinues(iteration, bo_args.num_iter)
    /\ experiment_config' = [experiment_config EXCEPT !.model_name =
            SwitchedModelName(iteration, bo_args.switch_to_deep_iter, start_model_name, @)]
    /\ trace' = Append(trace, [iteration |-> iteration,
                               family |-> experiment_config'.model_name,
                               best_y |-> best_y,
                               steps |-> <<"switch">>])
    /\ pc' = "create"
    /\ UNCHANGED <<side_vars, config_vars, exc, moved, start_model_name, iteration, data_vars, model,
                   acq_function, batch_initial_conditions, calls, logged>>

(* the range is exhausted: run_bo returns, finalize, "Done!" *)
Return ==
    /\ pc = "loop"
    /\ ~LoopContinues(iteration, bo_args.num_iter)
    /\ pc' = "exit"
    /\ UNCHANGED <<side_vars, config_vars, experiment_config, exc, moved, start_model_name, iteration,
                   data_vars, model, acq_function, batch_initial_conditions, calls, logged, trace>>

(* the last axis of x: the dimension of the embedding space of the points *)
(* (bo.py line 32: manifold_dim + 1), not the number of observations       *)
LastAxis(args) == args.manifold_dim + 1

(* run.py line 42: bo_args.kmeans_inducing and x.shape[-1] > kmeans_inducing_num *)
UsesKmeans(args) == args.kmeans_inducing /\ LastAxis(args) > args.kmeans_inducing_num

(* run.py line 43: sphere_kmeans_centers(x=x, k=k) gives k centers *)
sphere_kmeans_centers(rows, k) == k

(* run.py lines 42-45: the number of inducing points handed to create_model *)
inducing_points(rows, args) ==
    IF UsesKmeans(args)
    THEN sphere_kmeans_centers(rows, args.kmeans_inducing_num)
    ELSE Len(rows)

Step(name) == trace' = [trace EXCEPT ![Len(trace)].steps = Append(@, name)]

(* lines 41-49: create_model; BotorchGP.__init__ sets _resample_weights *)
CreateModel ==
    /\ pc = "create"
    /\ model' = [id |-> iteration, family |-> experiment_config.model_name,
                 num_inducing |-> inducing_points(x, bo_args),
                 fitted |-> FALSE, procedure |-> "none", num_steps |-> None,
                 resample_weights |-> TRUE]
    /\ Step("create")
    /\ pc' = "fit"
    /\ UNCHANGED <<side_vars, config_vars, experiment_config, exc, moved, start_model_name, iteration,
                   data_vars, acq_function, batch_initial_conditions, calls, logged>>

(* lines 54-61; the fitting procedures train the base model and do not  *)
(* go through BotorchGP.posterior                                          *)
Fit ==
    /\ pc = "fit"
    /\ LET proc == FitProcedure(experiment_config.model_name, iteration) IN
       IF proc = "none"
       THEN /\ Raise("ValueError")
            /\ UNCHANGED <<model, trace>>
       ELSE /\ model' = [model EXCEPT !.fitted = TRUE, !.procedure = proc,
                                      !.num_steps = IF proc = "fit"
                                                    THEN Some(FitNumSteps(iteration, fit_args))
                                                    ELSE None]
            /\ Step("fit")
            /\ pc' = "acqf"
            /\ exc' = exc
    /\ UNCHANGED <<side_vars, config_vars, experiment_config, moved, start_model_name, iteration,
                   data_vars, acq_function, batch_initial_conditions, calls, logged>>

(* the acquisition function is built once and kept *)
BuiltAcqfCached(it, m, best) ==
    IF acq_function # NoAcqf THEN acq_function
    ELSE [built_in |-> it, model |-> m.id, best_f |-> best]

(* line 64: what acqf_factory(model=model, best_f=best_y) closes over *)
BuiltAcqf(it, m, best) == [built_in |-> it, model |-> m.id, best_f |-> best]

AcqfFactory ==
    /\ pc = "acqf"
    /\ acq_function' = BuiltAcqf(iteration, model, best_y)
    /\ Step("acqf")
    /\ pc' = "resample"
    /\ UNCHANGED <<side_vars, config_vars, experiment_config, exc, moved, start_model_name, iteration,
                   data_vars, model, batch_initial_conditions, calls, logged>>

(* resample_weights() leaves the flag as it is *)
FlagUntouched(flag) == flag

(* botorch.py lines 20-21: resample_weights() sets the flag *)
FlagAfterResample(flag) == TRUE

(* the call of resample_weights() is left out *)
ResampleWeightsOmitted ==
    /\ pc = "resample"
    /\ calls' = <<>>
    /\ batch_initial_conditions' = "none"
    /\ pc' = "optimize"
    /\ UNCHANGED <<side_vars, config_vars, experiment_config, exc, moved, start_model_name, iteration,
                   data_vars, model, acq_function, logged, trace>>

(* lines 68-72: BotorchGP.resample_weights() for the deep family, then    *)
(* optimize_acqf_manifold is entered                                       *)
ResampleWeights ==
    /\ pc = "resample"
    /\ IF experiment_config.model_name = "deep"
       THEN /\ model' = [model EXCEPT !.resample_weights = FlagAfterResample(@)]
            /\ Step("resample")
       ELSE UNCHANGED <<model, trace>>
    /\ calls' = <<>>
    /\ batch_initial_conditions' = "none"
    /\ pc' = "optimize"
    /\ UNCHANGED <<side_vars, config_vars, experiment_config, exc, moved, start_model_name, iteration,
                   data_vars, acq_function, logged>>

(* ---- BotorchGP.posterior and optimize_acqf_manifold ---- *)

(* the flag is never cleared *)
FlagKept(flag) == flag

(* botorch.py lines 31-32: posterior() hands the flag to the base model   *)
(* and clears it                                                           *)
FlagAfterPosterior(flag) == FALSE

(* bo.py lines 50-53: the manifold class of a name; "none" when the name *)
(* is unknown (line 53 raises)                                             *)
manifold_class_from_name(name) == IF name = "sphere" THEN "Sphere" ELSE "none"

(* bo.py lines 79-88: optimize_acqf_manifold is entered; bo_args.manifold  *)
(* is read for the generator before any raw sample is drawn                *)
OptimizeAcqfManifold ==
    /\ pc = "optimize"
    /\ IF manifold_class_from_name(bo_args.manifold_name) = "none"
       THEN Raise("ValueError")
       ELSE /\ pc' = "gen"
            /\ exc' = exc
    /\ UNCHANGED <<side_vars, config_vars, experiment_config, moved, start_model_name, iteration,
                   data_vars, model, acq_function, batch_initial_conditions, calls, logged, trace>>

(* the assertion is missing *)
SeedsNeverRejected(seeds) == FALSE

(* bo.py line 89: the assertion on the generated seeds fails *)
SeedsRejected(seeds) == seeds = "nan"

CallsIn(phase) == Cardinality({k \in DOMAIN calls : calls[k].phase = phase})

(* The optimiser evaluates the acquisition function, hence                *)
(* model.posterior(), at least once when scoring the raw samples, once in  *)
(* the restarts and once when scoring the refined candidates; MaxPost      *)
(* bounds the evaluations of one optimize_acqf_manifold call.              *)
PhaseOf(p) == CASE p = "gen" -> "raw" [] p = "refine" -> "restart" [] p = "final" -> "final"
PhasesAfter(p) == CASE p = "gen" -> 2 [] p = "refine" -> 1 [] p = "final" -> 0

(* one acquisition evaluation: BotorchGP.posterior *)
Posterior ==
    /\ pc \in {"gen", "refine", "final"}
    /\ Len(calls) + PhasesAfter(pc) < MaxPost
    /\ calls' = Append(calls, [phase |-> PhaseOf(pc), resample_weights |-> model.resample_weights])
    /\ model' = [model EXCEPT !.resample_weights = FlagAfterPosterior(@)]
    /\ UNCHANGED <<side_vars, config_vars, experiment_config, pc, exc, moved, start_model_name, iteration,
                   data_vars, acq_function, batch_initial_conditions, logged, trace>>

(* bo.py lines 81-88: gen_batch_initial_conditions returns the seeds *)
GenBatchInitialConditions ==
    /\ pc = "gen"
    /\ CallsIn("raw") >= 1
    /\ batch_initial_conditions' \in {"ok", "nan"}
    /\ pc' = "assert"
    /\ UNCHANGED <<side_vars, config_vars, experiment_config, exc, moved, start_model_name, iteration,
                   data_vars, model, acq_function, calls, logged, trace>>

(* bo.py line 89 *)
AssertSeeds ==
    /\ pc = "assert"
    /\ IF SeedsRejected(batch_initial_conditions)
       THEN Raise("AssertionError")
       ELSE /\ pc' = "refine"
            /\ exc' = exc
    /\ UNCHANGED <<side_vars, config_vars, experiment_config, moved, start_model_name, iteration,
                   data_vars, model, acq_function, batch_initial_conditions, calls, logged, trace>>

(* bo.py lines 92-100: optimize_acqf with ManifoldGenCandidates; the      *)
(* restarts are done, the refined candidates are scored                    *)
RefineDone ==
    /\ pc = "refine"
    /\ CallsIn("restart") >= 1
    /\ pc' = "final"
    /\ UNCHANGED <<side_vars, config_vars, experiment_config, exc, moved, start_model_name, iteration,
                   data_vars, model, acq_function, batch_initial_conditions, calls, logged, trace>>

(* bo.py line 101 and run.py line 73: the best candidate is returned *)
OptimizeReturns ==
    /\ pc = "final"
    /\ CallsIn("final") >= 1
    /\ Step("optimize")
    /\ pc' = "observe"
    /\ UNCHANGED <<side_vars, config_vars, experiment_config, exc, moved, start_model_name, iteration,
                   data_vars, model, acq_function, batch_initial_conditions, calls, logged>>

(* ---- run_bo, after the optimiser ---- *)

(* the new row is put in front *)
catInFront(rows, new) == <<new>> \o rows

(* lines 79-80: torch.cat([rows, new]) *)
cat(rows, new) == Append(rows, new)

(* lines 76-80: the objective is queried at the new point; it may raise *)
Observe ==
    /\ pc = "observe"
    /\ \/ /\ Raise("ObjectiveError")
          /\ UNCHANGED <<x, y, trace>>
       \/ \E new_y \in Vals :
            /\ x' = cat(x, Len(x) + 1)
            /\ y' = cat(y, new_y)
            /\ Step("observe")
            /\ pc' = "update"
            /\ exc' = exc
    /\ calls' = <<>>
    /\ UNCHANGED <<side_vars, config_vars, experiment_config, moved, start_model_name, iteration,
                   best_x, best_y, model, acq_function, batch_initial_conditions, logged>>

(* lines 83-85 *)
UpdateBest ==
    /\ pc = "update"
    /\ IF Improves(Last(y), best_y)
       THEN /\ best_y' = Last(y)
            /\ best_x' = Last(x)
       ELSE UNCHANGED <<best_x, best_y>>
    /\ Step("update")
    /\ pc' = "log"
    /\ UNCHANGED <<side_vars, config_vars, experiment_config, exc, moved, start_model_name, iteration,
                   x, y, model, acq_function, batch_initial_conditions, calls, logged>>

(* the newest observation is logged instead of the best *)
metricsOfLast(bx, by) == [best_x |-> Last(x), best_y |-> Last(y)]

(* lines 88-91: the row handed to the loggers *)
metrics(bx, by) == [best_x |-> bx, best_y |-> by]

(* lines 88-93, and the loop moves to the next index *)
Log ==
    /\ pc = "log"
    /\ logged' = Append(logged, metrics(best_x, best_y))
    /\ Step("log")
    /\ iteration' = iteration + 1
    /\ pc' = "loop"
    /\ UNCHANGED <<side_vars, config_vars, experiment_config, exc, moved, start_model_name,
                   data_vars, model, acq_function, batch_initial_conditions, calls>>

(* ---- specifications ---- *)

InitFull(statuses, overwrites, num_iters, switches, names, maximizes, manifolds, dims, kmeans, kmeans_nums) ==
    /\ disk \in [status : statuses, model_name : names]
    /\ overwrite \in overwrites
    /\ bo_args \in [num_iter : num_iters, switch_to_deep_iter : switches, maximize : maximizes,
                    manifold_name : manifolds, manifold_dim : dims, kmeans_inducing : kmeans,
                    kmeans_inducing_num : kmeans_nums]
    /\ experiment_config = [status |-> "none", model_name |-> "none"]
    /\ pc = "main"
    /\ exc = NoExc
    /\ moved = FALSE
    /\ start_model_name = "none"
    /\ iteration = 0
    /\ x = <<>>
    /\ y = <<>>
    /\ best_x = 0
    /\ best_y = 0
    /\ model = NoModel
    /\ acq_function = NoAcqf
    /\ batch_initial_conditions = "none"
    /\ calls = <<>>
    /\ logged = <<>>
    /\ trace = <<>>
    /\ files = <<>>
    /\ creator = NoCreator
    /\ runners = <<>>

(* runs on the 2-sphere without k-means inducing points, every deep fit a *)
(* full one                                                                *)
InitWith(statuses, overwrites, num_iters, switches, names, maximizes, manifolds) ==
    /\ InitFull(statuses, overwrites, num_iters, switches, names, maximizes, manifolds, {2}, {FALSE}, {1})
    /\ fit_args = DefaultFitArgs

Switches(n) == {None} \cup {Some(s) : s \in 0..n}

Next ==
    \/ Enter
    \/ Skip
    \/ RunBoStart
    \/ SwitchModel
    \/ Return
    \/ CreateModel
    \/ Fit
    \/ AcqfFactory
    \/ ResampleWeights
    \/ OptimizeAcqfManifold
    \/ Posterior
    \/ GenBatchInitialConditions
    \/ AssertSeeds
    \/ RefineDone
    \/ OptimizeReturns
    \/ Observe
    \/ UpdateBest
    \/ Log
    \/ Exit

(* The optimisation loop of a run on a fresh or completed config, any     *)
(* schedule, any family, either orientation.                               *)
Init ==
    InitWith({READY, COMPLETED}, {FALSE}, 0..MaxIter, Switches(MaxIter), Families, BOOLEAN, {"sphere"})

Spec == Init /\ [][Next]_vars

(* The status protocol of the reader: any status on disk, either          *)
(* overwrite setting, around a short run.                                  *)
InitReader ==
    InitWith(ExperimentStatus, BOOLEAN, 0..ReaderIters, {None}, {"deep", "other"}, {FALSE}, {"sphere"})

SpecReader == InitReader /\ [][Next]_vars

(* The names of the configuration: any family label and a known or an     *)
(* unknown manifold name, with and without a schedule, on a fresh config.  *)
InitSetup ==
    InitWith({READY, COMPLETED}, {FALSE}, 0..ReaderIters, Switches(ReaderIters), Families, {FALSE},
             {"sphere", "other"})

SpecSetup == InitSetup /\ [][Next]_vars

(* k-means inducing points switched on or off, on the circle and on the   *)
(* 2-sphere, for an exact surrogate.                                       *)
InitInducing ==
    /\ InitFull({READY, COMPLETED}, {FALSE}, 0..MaxIter, {None}, {"exact"}, {FALSE}, {"sphere"},
                {1, 2}, BOOLEAN, 1..MaxInducing)
    /\ fit_args = DefaultFitArgs

(* any schedule and family, with a full fit every iteration or every      *)
(* MaxEvery-th.                                                            *)
InitFit ==
    /\ InitFull({READY, COMPLETED}, {FALSE}, 0..MaxIter, Switches(MaxIter), Families, {FALSE},
                {"sphere"}, {2}, {FALSE}, {1})
    /\ fit_args \in [num_steps : {2}, partial_num_steps : {1}, full_every_n_steps : 1..MaxEvery]

SpecFit == InitFit /\ [][Next]_vars

SpecInducing == InitInducing /\ [][Next]_vars

(* ---- properties ---- *)

switch_to_deep_iter == bo_args.switch_to_deep_iter
num_iter == bo_args.num_iter
InOptimizer == pc \in {"optimize", "gen", "assert", "refine", "final"}
Count(steps, name) == Cardinality({j \in DOMAIN steps : steps[j] = name})
DistinctValues == \E i, j \in DOMAIN y : y[i] # y[j]

(* C1: with switch_to_deep_iter = s, s in 0..num_iter, and a run entered   *)
(* with the label 'deep', every iteration i < s requests 'exact' and every *)
(* iteration i >= s requests 'deep': the label after the schedule branches *)
(* and the family of the model created for the iteration.                  *)
C1_SwitchSchedule ==
    (/\ start_model_name = "deep"
     /\ switch_to_deep_iter # None
     /\ switch_to_deep_iter[1] \in 0..num_iter)
    => /\ \A k \in DOMAIN trace :
            trace[k].family = IF trace[k].iteration < switch_to_deep_iter[1] THEN "exact" ELSE "deep"
       /\ (pc \in {"fit", "acqf", "resample"} \/ InOptimizer)
            => model.family = IF iteration < switch_to_deep_iter[1] THEN "exact" ELSE "deep"

C1_Witness ==
    /\ start_model_name = "deep"
    /\ switch_to_deep_iter = Some(1)
    /\ num_iter = 2
    /\ Len(trace) = 2
    /\ trace[1].family = "exact"
    /\ trace[2].family = "deep"
    /\ pc = "acqf"
    /\ model.family = "deep"
    /\ DistinctValues

(* The label a run entered with the label start carries on entry to       *)
(* iteration it: lines 28-39 applied in iterations 0..it-1.                *)
RECURSIVE LabelOnEntry(_, _, _)
LabelOnEntry(it, switch, start) ==
    IF it = 0 THEN start
    ELSE SwitchedModelName(it - 1, switch, start, LabelOnEntry(it - 1, switch, start))

(* C2, as claimed: the family chosen at iteration i depends on i and      *)
(* switch_to_deep_iter only; with a schedule set, a run under the same     *)
(* schedule entered with any other known label chooses, at the same index, *)
(* the family this run chose.                                              *)
C2_FamilyOfIndexAndScheduleOnly ==
    (start_model_name \in {"exact", "deep"} /\ switch_to_deep_iter # None)
    => \A k \in DOMAIN trace : \A other \in {"exact", "deep"} :
          SwitchedModelName(trace[k].iteration, switch_to_deep_iter, other,
                            LabelOnEntry(trace[k].iteration, switch_to_deep_iter, other))
            = trace[k].family

(* The family as a function of the index, the schedule and the label      *)
(* model_args carried on entry to run_bo.                                  *)
ScheduledFamily(it, switch, start) ==
    IF switch # None /\ it < switch[1] THEN "exact"
    ELSE IF start = "deep" THEN "deep"
    ELSE IF switch # None /\ switch[1] > 0 THEN "exact"
    ELSE start

(* C2, amended: the family chosen at iteration i is a function of i, the  *)
(* switch schedule and the label model_args carried on entry to run_bo     *)
(* (start_model_name), whatever the observed objective values.             *)
C2_FamilyOfIndexScheduleAndStart ==
    \A k \in DOMAIN trace :
        trace[k].family = ScheduledFamily(trace[k].iteration, switch_to_deep_iter, start_model_name)

C2_Witness ==
    /\ start_model_name = "other"
    /\ switch_to_deep_iter = Some(1)
    /\ Len(trace) = 2
    /\ trace[2].family = "exact"
    /\ pc = "create"
    /\ DistinctValues
    /\ best_y = 0

(* C3: minimize orientation; at the loop head (after the initial data and *)
(* after every completed iteration) best_y is the minimum of all observed  *)
(* values and best_x the point of the earliest observation attaining it.   *)
C3_BestIsEarliestMinimum ==
    (pc = "loop" /\ ~bo_args.maximize)
    => \E i \in DOMAIN y :
          /\ best_y = y[i]
          /\ best_x = x[i]
          /\ \A j \in DOMAIN y : y[j] >= y[i] /\ (j < i => y[j] > y[i])

C3_Witness ==
    /\ pc = "loop"
    /\ ~bo_args.maximize
    /\ iteration >= 1
    /\ Last(y) = best_y
    /\ best_x # Last(x)

(* C4: the best value follows BOArguments.maximize: the maximum of the    *)
(* observed values (earliest point attaining it) when maximize is True,    *)
(* the minimum when it is False.                                           *)
C4_BestFollowsOrientation ==
    pc = "loop"
    => \E i \in DOMAIN y :
          /\ best_y = y[i]
          /\ best_x = x[i]
          /\ \A j \in DOMAIN y :
                IF bo_args.maximize
                THEN y[j] <= y[i] /\ (j < i => y[j] < y[i])
                ELSE y[j] >= y[i] /\ (j < i => y[j] > y[i])

(* C5: in an iteration with the 'deep' family, while optimize_acqf_manifold *)
(* runs and until it has returned, the first posterior() call and no other *)
(* passed resample_weights=True; before the first call the resampling is   *)
(* pending (the flag is set), and once the seeds exist it has happened.    *)
C5_ResampledOnceAtFirstEvaluation ==
    ((InOptimizer \/ pc = "observe") /\ model.family = "deep")
    => /\ \A k \in DOMAIN calls : calls[k].resample_weights = (k = 1)
       /\ calls = <<>> => model.resample_weights
       /\ pc \notin {"optimize", "gen"} => Len(calls) >= 1

C5_Witness ==
    /\ pc = "observe"
    /\ model.family = "deep"
    /\ Len(calls) = 3
    /\ calls[1].phase = "raw" /\ calls[1].resample_weights
    /\ calls[2].phase = "restart" /\ ~calls[2].resample_weights
    /\ calls[3].phase = "final" /\ ~calls[3].resample_weights

(* C6: while the optimiser of iteration i runs, the acquisition function  *)
(* it optimises was built in iteration i, from the model created and       *)
(* fitted in iteration i and from the best value at the start of           *)
(* iteration i.                                                            *)
C6_AcqfOfThisIteration ==
    InOptimizer
    => /\ acq_function.built_in = iteration
       /\ acq_function.model = model.id
       /\ model.id = iteration
       /\ model.fitted
       /\ acq_function.best_f = Last(trace).best_y
       /\ Last(trace).iteration = iteration

C6_Witness ==
    /\ pc = "final"
    /\ iteration = 1
    /\ acq_function.built_in = 1
    /\ acq_function.best_f # trace[1].best_y

(* C7: seeds containing NaN never reach the local refinement: the         *)
(* assertion raises, and the only acquisition evaluations made are those   *)
(* of the raw samples.                                                     *)
C7_NanSeedsRaiseBeforeRefinement ==
    /\ pc \in {"refine", "final"} => batch_initial_conditions = "ok"
    /\ (batch_initial_conditions = "nan" /\ pc # "assert")
        => /\ exc = "AssertionError"
           /\ pc \in {"exit", "done"}
           /\ \A k \in DOMAIN calls : calls[k].phase = "raw"

C7_Witness ==
    /\ batch_initial_conditions = "nan"
    /\ pc = "exit"
    /\ exc = "AssertionError"

(* C8: a run that __enter__ moved to RUNNING has, after __exit__, status  *)
(* FAILED on disk iff its body raised and COMPLETED iff it returned.       *)
C8_StatusReflectsOutcome ==
    (pc = "done" /\ moved)
    => /\ disk.status = FAILED <=> exc # NoExc
       /\ disk.status = COMPLETED <=> exc = NoExc

C8_Witness ==
    /\ pc = "done"
    /\ moved
    /\ exc # NoExc
    /\ disk.status = FAILED
    /\ overwrite

(* C9: once an exception is raised in an iteration it is the exception    *)
(* that propagates to the end; the iteration counter, the observations,    *)
(* the rows logged and the steps taken never change again.                 *)
C9_ErrorNotSwallowed ==
    [][exc # NoExc =>
         /\ exc' = exc
         /\ pc' \in {"exit", "done"}
         /\ iteration' = iteration
         /\ x' = x /\ y' = y
         /\ logged' = logged
         /\ trace' = trace]_vars

C9_Witness ==
    /\ pc = "done"
    /\ exc = "ObjectiveError"
    /\ iteration = 1
    /\ num_iter = 2
    /\ Len(logged) = 1
    /\ Len(trace) = 2
    /\ Len(y) = Len(x)

(* C10: when run_bo returns, it has run exactly num_iter iterations, with *)
(* indices 0..num_iter-1 in order, each with one fit, one acquisition      *)
(* optimisation and one objective query.                                   *)
C10_ExactlyNumIterIterations ==
    (pc \in {"exit", "done"} /\ exc = NoExc /\ start_model_name # "none")
    => /\ Len(trace) = num_iter
       /\ \A k \in DOMAIN trace :
            /\ trace[k].iteration = k - 1
            /\ Count(trace[k].steps, "fit") = 1
            /\ Count(trace[k].steps, "optimize") = 1
            /\ Count(trace[k].steps, "observe") = 1

C10_Witness ==
    /\ pc = "done"
    /\ exc = NoExc
    /\ num_iter = 2
    /\ Len(trace) = 2
    /\ Len(y) >= 3

C10_WitnessNone ==
    /\ pc = "done"
    /\ exc = NoExc
    /\ start_model_name # "none"
    /\ num_iter = 0
    /\ trace = <<>>

(* the observations run_bo started from: all but those the loop appended *)
Observed == Cardinality({k \in DOMAIN trace : Count(trace[k].steps, "observe") = 1})
InitialCount == Len(y) - Observed
IndexOf(steps, name) == CHOOSE j \in DOMAIN steps : steps[j] = name

(* C11: the logger is called once per completed iteration, after the best *)
(* update of that iteration; row k holds the minimum of the initial values  *)
(* and the first k observations of the loop and the earliest point          *)
(* attaining it, so the logged best values never increase.                  *)
C11_LoggedOncePerIteration ==
    /\ pc = "loop" => Len(logged) = iteration
    /\ \A k \in DOMAIN trace :
          /\ Count(trace[k].steps, "log") = (IF k <= Len(logged) THEN 1 ELSE 0)
          /\ Count(trace[k].steps, "log") = 1
                => /\ Count(trace[k].steps, "update") = 1
                   /\ IndexOf(trace[k].steps, "observe") < IndexOf(trace[k].steps, "update")
                   /\ IndexOf(trace[k].steps, "update") < IndexOf(trace[k].steps, "log")
    /\ \A k \in DOMAIN logged :
          \E i \in 1..(InitialCount + k) :
              /\ logged[k].best_y = y[i]
              /\ logged[k].best_x = x[i]
              /\ \A j \in 1..(InitialCount + k) : y[j] >= y[i] /\ (j < i => y[j] > y[i])
    /\ \A k \in DOMAIN logged : k > 1 => logged[k].best_y <= logged[k - 1].best_y

C11_Witness ==
    /\ pc = "loop"
    /\ Len(logged) = 2
    /\ logged[1].best_y > logged[2].best_y
    /\ logged[2].best_x = Last(x)
    /\ logged[1].best_x = 1
    /\ y[Len(y) - 1] = logged[1].best_y

(* C12: an unknown manifold or surrogate-family name is raised at setup:  *)
(* in a run of at least one iteration, no iteration creates or fits a       *)
(* surrogate or queries the objective, and the run ends with the error.     *)
C12_UnknownNameFatalAtSetup ==
    (/\ start_model_name # "none"
     /\ num_iter >= 1
     /\ \/ start_model_name \notin {"exact", "deep"}
        \/ bo_args.manifold_name # "sphere")
    => /\ \A k \in DOMAIN trace :
            /\ Count(trace[k].steps, "create") = 0
            /\ Count(trace[k].steps, "fit") = 0
            /\ Count(trace[k].steps, "observe") = 0
       /\ pc \in {"exit", "done"} => exc = "ValueError"

IsPrefix(a, b) == Len(a) <= Len(b) /\ SubSeq(b, 1, Len(a)) = a
NotCreate(name) == name # "create"

(* the order of the steps as claimed, model creation left aside *)
ClaimedOrder(family) ==
    IF family = "deep"
    THEN <<"switch", "fit", "resample", "acqf", "optimize", "observe", "update", "log">>
    ELSE <<"switch", "fit", "acqf", "optimize", "observe", "update", "log">>

(* the order of the steps in run.py *)
SourceOrder(family) ==
    IF family = "deep"
    THEN <<"switch", "create", "fit", "acqf", "resample", "optimize", "observe", "update", "log">>
    ELSE <<"switch", "create", "fit", "acqf", "optimize", "observe", "update", "log">>

InitialRows == Len(x) - iteration - (IF pc \in {"update", "log"} THEN 1 ELSE 0)

(* C14: the observation history is append-only: every step keeps the rows *)
(* of x and y already there, in place; x and y have the same length, the    *)
(* initial count plus the completed iterations (plus the row of the         *)
(* iteration whose observation is appended and not yet logged).             *)
C14_HistoryAppendOnly ==
    [][/\ IsPrefix(x, x')
       /\ IsPrefix(y, y')
       /\ Len(x') = Len(y')
       /\ Len(x') \in {Len(x), Len(x) + 1} \/ x = <<>>
       /\ start_model_name # "none" => InitialRows' = InitialRows]_vars

C14_Witness ==
    /\ pc = "loop"
    /\ iteration = 2
    /\ x = <<1, 2, 3, 4>>
    /\ Len(y) = 4
    /\ y[1] # y[4]

(* ---- one BotorchGP under any sequence of calls ---- *)

(* botorch.py lines 7-12: the wrapper after construction *)
InitGP ==
    /\ disk = [status |-> RUNNING, model_name |-> "deep"]
    /\ overwrite = FALSE
    /\ bo_args = [num_iter |-> 0, switch_to_deep_iter |-> None, maximize |-> FALSE,
                  manifold_name |-> "sphere", manifold_dim |-> 2, kmeans_inducing |-> FALSE,
                  kmeans_inducing_num |-> 1]
    /\ fit_args = DefaultFitArgs
    /\ experiment_config = disk
    /\ pc = "gp"
    /\ exc = NoExc
    /\ moved = FALSE
    /\ start_model_name = "none"
    /\ iteration = 0
    /\ x = <<>>
    /\ y = <<>>
    /\ best_x = 0
    /\ best_y = 0
    /\ model = [id |-> 0, family |-> "deep", num_inducing |-> 0, fitted |-> FALSE,
                procedure |-> "none", num_steps |-> None,
                resample_weights |-> TRUE]
    /\ acq_function = NoAcqf
    /\ batch_initial_conditions = "none"
    /\ calls = <<>>
    /\ logged = <<>>
    /\ trace = <<>>
    /\ files = <<>>
    /\ creator = NoCreator
    /\ runners = <<>>

(* botorch.py lines 20-21, called by any client *)
GPResampleWeights ==
    /\ pc = "gp"
    /\ Len(calls) < MaxCalls
    /\ model' = [model EXCEPT !.resample_weights = FlagAfterResample(@)]
    /\ calls' = Append(calls, [phase |-> "resample_weights", resample_weights |-> TRUE])
    /\ UNCHANGED <<side_vars, config_vars, experiment_config, pc, exc, moved, start_model_name, iteration,
                   data_vars, acq_function, batch_initial_conditions, logged, trace>>

(* botorch.py lines 23-45, called by any client: the flag is passed to     *)
(* forward and then cleared                                                *)
GPPosterior ==
    /\ pc = "gp"
    /\ Len(calls) < MaxCalls
    /\ calls' = Append(calls, [phase |-> "posterior", resample_weights |-> model.resample_weights])
    /\ model' = [model EXCEPT !.resample_weights = FlagAfterPosterior(@)]
    /\ UNCHANGED <<side_vars, config_vars, experiment_config, pc, exc, moved, start_model_name, iteration,
                   data_vars, acq_function, batch_initial_conditions, logged, trace>>

NextGP ==
    \/ GPResampleWeights
    \/ GPPosterior

SpecGP == InitGP /\ [][NextGP]_vars

IsPosterior(k) == calls[k].phase = "posterior"
Posteriors == {k \in DOMAIN calls : IsPosterior(k)}
PosteriorsBefore(k) == {j \in Posteriors : j < k}
Max(S) == CHOOSE v \in S : \A w \in S : v >= w

(* C15: a posterior call passes resample_weights = True to the wrapped     *)
(* model exactly when it is the first posterior call since construction or  *)
(* resample_weights() was called since the posterior call before it; so     *)
(* several resample_weights() calls in a row cause one resampling, at the    *)
(* next posterior call.                                                     *)
C15_ResampleFlagOneShot ==
    pc = "gp" =>
        \A k \in Posteriors :
            calls[k].resample_weights
                <=> \/ PosteriorsBefore(k) = {}
                    \/ \E j \in (Max(PosteriorsBefore(k)) + 1)..(k - 1) :
                          calls[j].phase = "resample_weights"

C15_Witness ==
    /\ pc = "gp"
    /\ Len(calls) = 6
    /\ calls[1] = [phase |-> "posterior", resample_weights |-> TRUE]
    /\ calls[2] = [phase |-> "posterior", resample_weights |-> FALSE]
    /\ calls[3].phase = "resample_weights"
    /\ calls[4].phase = "resample_weights"
    /\ calls[5] = [phase |-> "posterior", resample_weights |-> TRUE]
    /\ calls[6] = [phase |-> "posterior", resample_weights |-> FALSE]

(* C16: __enter__ writes RUNNING exactly when the status read is READY or  *)
(* FAILED, or COMPLETED with overwrite; from a COMPLETED config without     *)
(* overwrite no step changes the file and the body (run_bo) is not entered. *)
C16_EnterMovesToRunning ==
    [][/\ pc = "main" =>
            IF \/ disk.status \in {READY, FAILED}
               \/ disk.status = COMPLETED /\ overwrite
            THEN disk' = [disk EXCEPT !.status = RUNNING] /\ moved'
            ELSE disk' = disk /\ ~moved'
       /\ (disk.status = COMPLETED /\ ~overwrite /\ ~moved) =>
            /\ disk' = disk
            /\ pc' \in {"body", "exit", "done"}
            /\ start_model_name' = "none"
            /\ x' = <<>>
            /\ trace' = <<>>]_vars

C16_Witness ==
    /\ pc = "done"
    /\ disk.status = COMPLETED
    /\ ~overwrite
    /\ ~moved
    /\ experiment_config = disk
    /\ start_model_name = "none"
    /\ x = <<>>

(* ---- create_experiment_config_from_json ---- *)

Paths == 1..MaxPaths
Missing == [exists |-> FALSE, status |-> "none", content |-> "none"]

(* the file a run of an earlier tree creation or of a runner left *)
Existing == [exists : {TRUE}, status : ExperimentStatus, content : {"old"}]

(* reproducibility.py lines 175-180 and 92: the config of the expanded     *)
(* tree, with the default status READY                                      *)
NewConfig == [exists |-> TRUE, status |-> READY, content |-> "new"]

(* every existing file is rewritten *)
SkipsNever(exists, ow) == FALSE

(* reproducibility.py line 192: os.path.exists(config_path) and not overwrite *)
SkipsConfig(exists, ow) == exists /\ ~ow

(* the expanded tree: the paths of the product of the argument lists and  *)
(* the runs, in order (a run listed twice gives its path twice)             *)
Trees == UNION {[1..n -> Paths] : n \in 0..MaxTree}

InitCreate ==
    /\ disk = [status |-> READY, model_name |-> "exact"]
    /\ overwrite = FALSE
    /\ bo_args = [num_iter |-> 0, switch_to_deep_iter |-> None, maximize |-> FALSE,
                  manifold_name |-> "sphere", manifold_dim |-> 2, kmeans_inducing |-> FALSE,
                  kmeans_inducing_num |-> 1]
    /\ fit_args = DefaultFitArgs
    /\ experiment_config = [status |-> "none", model_name |-> "none"]
    /\ pc = "create_tree"
    /\ exc = NoExc
    /\ moved = FALSE
    /\ start_model_name = "none"
    /\ iteration = 0
    /\ x = <<>>
    /\ y = <<>>
    /\ best_x = 0
    /\ best_y = 0
    /\ model = NoModel
    /\ acq_function = NoAcqf
    /\ batch_initial_conditions = "none"
    /\ calls = <<>>
    /\ logged = <<>>
    /\ trace = <<>>
    /\ files \in [Paths -> {Missing} \cup Existing]
    /\ creator \in [tree : Trees, cursor : {1}, overwrite : BOOLEAN]
    /\ runners = <<>>

(* reproducibility.py lines 173-196: one pass of the loop body *)
CreateConfig ==
    /\ pc = "create_tree"
    /\ creator.cursor <= Len(creator.tree)
    /\ LET config_path == creator.tree[creator.cursor] IN
       IF SkipsConfig(files[config_path].exists, creator.overwrite)
       THEN UNCHANGED files
       ELSE files' = [files EXCEPT ![config_path] = NewConfig]
    /\ creator' = [creator EXCEPT !.cursor = @ + 1]
    /\ UNCHANGED <<config_vars, experiment_config, pc, exc, moved, start_model_name, iteration,
                   data_vars, model, acq_function, batch_initial_conditions, calls, logged,
                   trace, runners>>

NextCreate == CreateConfig

SpecCreate == InitCreate /\ [][NextCreate]_vars

(* C17: with overwrite=False no step of the tree creation changes a config *)
(* file that exists, whatever its status, and a file comes to exist only at *)
(* a path of the tree, as a READY config; when the creation has gone        *)
(* through the tree, every path of the tree holds a config, and with        *)
(* overwrite=True each of them is the READY config of the tree.             *)
C17_CreateKeepsExisting ==
    /\ [][pc = "create_tree" =>
            \A p \in Paths :
                /\ (files[p].exists /\ ~creator.overwrite) => files'[p] = files[p]
                /\ files'[p] # files[p] =>
                      /\ p \in Range(creator.tree)
                      /\ files'[p] = [exists |-> TRUE, status |-> READY, content |-> "new"]]_vars
    /\ [](pc = "create_tree" /\ creator.cursor > Len(creator.tree) =>
            \A p \in Range(creator.tree) :
                /\ files[p].exists
                /\ creator.overwrite =>
                      files[p] = [exists |-> TRUE, status |-> READY, content |-> "new"])

C17_Witness ==
    /\ pc = "create_tree"
    /\ ~creator.overwrite
    /\ creator.tree = <<1, 2, 1>>
    /\ creator.cursor = 4
    /\ files[1] = [exists |-> TRUE, status |-> READY, content |-> "new"]
    /\ files[2] = [exists |-> TRUE, status |-> FAILED, content |-> "old"]

(* ---- two runners on one config file ---- *)

Runners == {1, 2}

InitRace ==
    /\ disk \in [status : ExperimentStatus, model_name : {"exact"}]
    /\ overwrite \in BOOLEAN
    /\ bo_args = [num_iter |-> 0, switch_to_deep_iter |-> None, maximize |-> FALSE,
                  manifold_name |-> "sphere", manifold_dim |-> 2, kmeans_inducing |-> FALSE,
                  kmeans_inducing_num |-> 1]
    /\ fit_args = DefaultFitArgs
    /\ experiment_config = [status |-> "none", model_name |-> "none"]
    /\ pc = "race"
    /\ exc = NoExc
    /\ moved = FALSE
    /\ start_model_name = "none"
    /\ iteration = 0
    /\ x = <<>>
    /\ y = <<>>
    /\ best_x = 0
    /\ best_y = 0
    /\ model = NoModel
    /\ acq_function = NoAcqf
    /\ batch_initial_conditions = "none"
    /\ calls = <<>>
    /\ logged = <<>>
    /\ trace = <<>>
    /\ files = <<>>
    /\ creator = NoCreator
    /\ runners = [r \in Runners |->
                    [pc |-> "main", experiment_config |-> [status |-> "none", model_name |-> "none"],
                     exc |-> NoExc, ran |-> FALSE]]

race_frame == <<overwrite, bo_args, fit_args, experiment_config, pc, exc, moved, start_model_name,
                iteration, data_vars, model, acq_function, batch_initial_conditions, calls,
                logged, trace, files, creator>>

(* reproducibility.py line 223: ExperimentConfig.from_json(self.file_path) *)
RunnerRead(r) ==
    /\ runners[r].pc = "main"
    /\ runners' = [runners EXCEPT ![r].experiment_config = disk, ![r].pc = "enter"]
    /\ UNCHANGED <<disk, race_frame>>

(* reproducibility.py lines 224-228: the test of the status read, and the  *)
(* write of RUNNING (no lock is taken and the file is not read again)      *)
RunnerEnter(r) ==
    /\ runners[r].pc = "enter"
    /\ IF EnterUpdates(runners[r].experiment_config.status, overwrite)
       THEN /\ runners' = [runners EXCEPT ![r].experiment_config.status = RUNNING,
                                          ![r].pc = "body"]
            /\ disk' = [runners[r].experiment_config EXCEPT !.status = RUNNING]
       ELSE /\ runners' = [runners EXCEPT ![r].pc = "body"]
            /\ UNCHANGED disk
    /\ UNCHANGED race_frame

(* run_experiments.py lines 56-66: the body runs, and returns or raises *)
RunnerBody(r) ==
    /\ runners[r].pc = "body"
    /\ can_run(runners[r].experiment_config)
    /\ \E e \in {NoExc, "ObjectiveError"} :
          runners' = [runners EXCEPT ![r].ran = TRUE, ![r].exc = e, ![r].pc = "exit"]
    /\ UNCHANGED <<disk, race_frame>>

(* run_experiments.py line 56: the status is not RUNNING *)
RunnerSkip(r) ==
    /\ runners[r].pc = "body"
    /\ ~can_run(runners[r].experiment_config)
    /\ runners' = [runners EXCEPT ![r].pc = "exit"]
    /\ UNCHANGED <<disk, race_frame>>

(* reproducibility.py lines 230-233: __exit__ *)
RunnerExit(r) ==
    /\ runners[r].pc = "exit"
    /\ IF runners[r].experiment_config.status = RUNNING
       THEN /\ runners' = [runners EXCEPT ![r].experiment_config.status = ExitStatus(runners[r].exc),
                                          ![r].pc = "done"]
            /\ disk' = [runners[r].experiment_config EXCEPT !.status = ExitStatus(runners[r].exc)]
       ELSE /\ runners' = [runners EXCEPT ![r].pc = "done"]
            /\ UNCHANGED disk
    /\ UNCHANGED race_frame

NextRace ==
    \E r \in Runners :
        \/ RunnerRead(r)
        \/ RunnerEnter(r)
        \/ RunnerBody(r)
        \/ RunnerSkip(r)
        \/ RunnerExit(r)

SpecRace == InitRace /\ [][NextRace]_vars

Ran == {r \in DOMAIN runners : runners[r].ran}

(* C18, as claimed: of two runners that open the same config file, at most *)
(* one executes the experiment body, and when both have left the reader the *)
(* status on disk is the one the outcome of that execution gives.           *)
C18_AtMostOneRunnerExecutes ==
    pc = "race" =>
        /\ Cardinality(Ran) <= 1
        /\ (\A r \in Runners : runners[r].pc = "done") =>
              \A r \in Ran : disk.status = (IF runners[r].exc = NoExc THEN COMPLETED ELSE FAILED)

(* C19, as claimed: when run_bo has returned or raised, model_args.model_name *)
(* is the label it had on entry, and the config __exit__ writes back carries  *)
(* that label.                                                               *)
C19_ModelNameUnchanged ==
    (start_model_name # "none" /\ pc \in {"exit", "done"})
    => /\ experiment_config.model_name = start_model_name
       /\ disk.model_name = start_model_name

(* the family lines 32-39 give iteration it of this run *)
FamilyAt(it) ==
    SwitchedModelName(it, switch_to_deep_iter, start_model_name,
                      LabelOnEntry(it, switch_to_deep_iter, start_model_name))

(* C20: within one run two iterations use different families only if the  *)
(* earlier one used 'exact' and the later one 'deep' (so the family changes *)
(* at most once, and 'deep' is kept once used); with switch_to_deep_iter    *)
(* None every iteration uses the label the run was entered with. The same   *)
(* holds of the schedule of the run continued past num_iter.                *)
C20_FamilyChangesOnceToDeep ==
    start_model_name # "none" =>
        /\ \A k, l \in DOMAIN trace :
              (k < l /\ trace[k].family # trace[l].family)
                  => trace[k].family = "exact" /\ trace[l].family = "deep"
        /\ switch_to_deep_iter = None =>
              \A k \in DOMAIN trace : trace[k].family = start_model_name
        /\ \A i, j \in 0..(MaxIter + 2) :
              (i < j /\ FamilyAt(i) # FamilyAt(j))
                  => FamilyAt(i) = "exact" /\ FamilyAt(j) = "deep"
        /\ \A k \in DOMAIN trace : trace[k].family = FamilyAt(trace[k].iteration)

C20_Witness ==
    /\ pc = "done"
    /\ exc = NoExc
    /\ start_model_name = "deep"
    /\ switch_to_deep_iter = Some(1)
    /\ Len(trace) = 2
    /\ trace[1].family = "exact"
    /\ trace[2].family = "deep"

(* C21: with one runner, once the with block has exited the status on     *)
(* disk is COMPLETED or FAILED, never RUNNING, also for a config read as    *)
(* RUNNING; after __enter__ a status of RUNNING on disk is the status the   *)
(* reader holds, and it is seen only before __exit__.                       *)
C21_NotRunningAfterExit ==
    /\ pc = "done" => disk.status \in {COMPLETED, FAILED}
    /\ (disk.status = RUNNING /\ pc # "main") =>
          /\ pc # "done"
          /\ experiment_config.status = RUNNING

C21_Witness ==
    /\ pc = "done"
    /\ ~moved
    /\ start_model_name # "none"
    /\ exc = NoExc
    /\ disk.status = COMPLETED
    /\ ~overwrite

(* C22, as claimed: with kmeans_inducing enabled the surrogate never gets  *)
(* more than kmeans_inducing_num inducing points: once there are more       *)
(* observations than kmeans_inducing_num it gets kmeans_inducing_num        *)
(* centers.                                                                 *)
C22_InducingAtMostKmeansNum ==
    (bo_args.kmeans_inducing /\ pc = "fit") =>
        /\ model.num_inducing <= bo_args.kmeans_inducing_num
        /\ Len(x) > bo_args.kmeans_inducing_num =>
              model.num_inducing = bo_args.kmeans_inducing_num

IsMultiple(it, n) == \E q \in 0..it : it = q * n

(* C23: a deep surrogate is fitted by fit with fit_args.num_steps steps at *)
(* an iteration whose index is a multiple of full_every_n_steps and with    *)
(* partial_num_steps steps at any other, wherever the deep family was first *)
(* used; an exact surrogate is fitted by fit_gpytorch_mll; a surrogate of   *)
(* any other label is not fitted and ValueError is raised.                  *)
C23_FitByFamilyAndIndex ==
    /\ pc = "acqf" =>
          /\ model.fitted
          /\ model.id = iteration
          /\ model.family \in {"exact", "deep"}
          /\ model.family = "exact" =>
                model.procedure = "fit_gpytorch_mll" /\ model.num_steps = None
          /\ model.family = "deep" =>
                /\ model.procedure = "fit"
                /\ model.num_steps = Some(IF IsMultiple(iteration, fit_args.full_every_n_steps)
                                          THEN fit_args.num_steps
                                          ELSE fit_args.partial_num_steps)
    /\ (trace # <<>> /\ Last(trace).family \notin {"exact", "deep"}) =>
          \/ pc \in {"create", "fit"}
          \/ /\ pc \in {"exit", "done"}
             /\ exc = "ValueError"
             /\ ~model.fitted
             /\ Count(Last(trace).steps, "fit") = 0

C23_Witness ==
    /\ pc = "acqf"
    /\ iteration = 1
    /\ switch_to_deep_iter = Some(1)
    /\ fit_args.full_every_n_steps = 2
    /\ trace[1].family = "exact"
    /\ model.family = "deep"
    /\ model.num_steps = Some(fit_args.partial_num_steps)
    /\ fit_args.partial_num_steps # fit_args.num_steps

====
